---- MODULE Spec2Model ----
(***************************************************************************)
(* Model of rsn-backend/server.js: an Express application with a CORS      *)
(* origin policy, two informational GET routes, the career-application     *)
(* and contact handlers that relay a form as an email through one shared   *)
(* nodemailer transport, the error-handling middleware and the 404 route.  *)
(*                                                                         *)
(* JavaScript values are modelled as strings.  Undef stands for the value  *)
(* undefined, Native(k) for the built-in member an object literal inherits *)
(* under key k.  A template literal is the sequence of its parts, each     *)
(* interpolated value converted by ToStr as JavaScript converts it.        *)
(***************************************************************************)
EXTENDS Integers, Sequences, FiniteSets, TLC

\* Number of requests the process may be handling at the same time.
NumReqs == 2

Undef == "<undefined>"

\* JavaScript truthiness of a string-or-undefined value: !v is true for
\* undefined and for the empty string.
Falsy(v) == v = Undef \/ v = ""

\* a || b
Or(a, b) == IF Falsy(a) THEN b ELSE a

\* The inherited members of an object literal (Object.prototype), which a
\* bracket lookup map[value] finds when map has no own property of that name.
ObjectPrototypeKeys ==
    {"constructor", "toString", "valueOf", "hasOwnProperty", "__proto__"}

NativeText ==
    [k \in ObjectPrototypeKeys |->
        CASE k = "constructor"    -> "function Object() { [native code] }"
          [] k = "toString"       -> "function toString() { [native code] }"
          [] k = "valueOf"        -> "function valueOf() { [native code] }"
          [] k = "hasOwnProperty" -> "function hasOwnProperty() { [native code] }"
          [] k = "__proto__"      -> "[object Object]"]

Native(k) == "<native " \o k \o ">"

NativeKeyOf(v) == CHOOSE k \in ObjectPrototypeKeys : Native(k) = v

IsNative(v) == \E k \in ObjectPrototypeKeys : Native(k) = v

\* String(v), as a template literal `${v}` renders a value.
ToStr(v) ==
    IF v = Undef THEN "undefined"
    ELSE IF IsNative(v) THEN NativeText[NativeKeyOf(v)]
    ELSE v

----------------------------------------------------------------------------
\* server.js:16-21
allowedOrigins ==
    { "http://localhost:4200",
      "https://rsn-frontend.vercel.app",
      "https://rsn-omega.vercel.app",
      "https://rsn-production-07e6.up.railway.app" }

CorsMessage ==
    "The CORS policy for this site does not allow access from the specified Origin."

\* server.js:24-34, the origin callback: TRUE when it calls callback(null, true),
\* FALSE when it calls callback(new Error(msg), false).
OriginAllowed(origin) ==
    IF Falsy(origin) THEN TRUE
    ELSE IF origin \notin allowedOrigins THEN FALSE
    ELSE TRUE

\* server.js:70
FileSizeLimit == 5 * 1024 * 1024

\* server.js:262-269
formatPosition(value) ==
    LET key == ToStr(value)
        map == CASE key = "chartered_accountant" -> "Chartered Accountant"
                 [] key = "articleship"          -> "Articleship"
                 [] key = "others"               -> "Others"
                 [] key \in ObjectPrototypeKeys  -> Native(key)
                 [] OTHER                        -> Undef
    IN  Or(map, value)

----------------------------------------------------------------------------
(* Inputs.  A request is [method, path, origin, body, file]; body holds the   *)
(* parsed form fields (an absent field is Undef), file the uploaded part the  *)
(* client attached under the name "resume" (present = FALSE: none).           *)

NoFile == [present |-> FALSE, originalname |-> Undef, buffer |-> Undef, size |-> 0]

Files ==
    { NoFile,
      [present |-> TRUE, originalname |-> "cv.pdf",      buffer |-> "%PDF-A",
       size |-> 1024],
      [present |-> TRUE, originalname |-> "resume.docx", buffer |-> "PK-B",
       size |-> FileSizeLimit - 1],
      [present |-> TRUE, originalname |-> "big.pdf",     buffer |-> "%PDF-C",
       size |-> FileSizeLimit + 1] }

Positions ==
    {Undef, "", "chartered_accountant", "articleship", "others", "intern", "toString"}

EvilOrigin == "https://evil.example"

AllowedOrigin == "https://rsn-frontend.vercel.app"

Origins == {Undef, "", AllowedOrigin, EvilOrigin}

EmptyBody ==
    [name |-> Undef, email |-> Undef, phone |-> Undef, position |-> Undef,
     message |-> Undef, subject |-> Undef, preferredContact |-> Undef]

CareerBodies ==
    { [EmptyBody EXCEPT !.name = n, !.email = e, !.phone = p, !.position = pos,
                        !.message = m] :
        n \in {Undef, "", "Asha"}, e \in {Undef, "", "asha@x.com"},
        p \in {Undef, "", "98450"}, pos \in Positions, m \in {Undef, "Hello"} }

ContactBodies ==
    { [EmptyBody EXCEPT !.name = n, !.email = e, !.message = m, !.phone = p,
                        !.subject = s, !.preferredContact = c] :
        n \in {Undef, "", "A"}, e \in {Undef, "", "a@x.com"},
        m \in {Undef, "", "hi"}, p \in {Undef, "98450"},
        s \in {Undef, "", "Audit"}, c \in {Undef, "Phone"} }

Req(m, p, o, b, f) ==
    [method |-> m, path |-> p, origin |-> o, body |-> b, file |-> f]

Methods == {"GET", "POST", "OPTIONS"}

Paths == {"/", "/api/health", "/api/careers/apply", "/api/contact", "/api/unknown"}

ValidCareerBody ==
    [EmptyBody EXCEPT !.name = "Asha", !.email = "asha@x.com", !.phone = "98450",
                      !.position = "others", !.message = "Hello"]

ValidContactBody ==
    [EmptyBody EXCEPT !.name = "A", !.email = "a@x.com", !.message = "hi"]

\* Every method, path and origin with an empty payload; every career and
\* contact payload without an Origin and from an allowed one; a valid and an empty
\* payload of each kind from every origin and with every file.
AllRequests ==
    { Req(m, p, o, EmptyBody, NoFile) : m \in Methods, p \in Paths, o \in Origins }
    \cup { Req("POST", "/api/careers/apply", o, b, f) :
             o \in {Undef, AllowedOrigin}, b \in CareerBodies,
             f \in {f \in Files : f.size < FileSizeLimit} }
    \cup { Req("POST", "/api/contact", o, b, NoFile) :
             o \in {Undef, AllowedOrigin}, b \in ContactBodies }
    \cup { Req("POST", "/api/careers/apply", o, b, f) :
             o \in Origins, b \in {EmptyBody, ValidCareerBody}, f \in Files }
    \cup { Req("POST", "/api/contact", o, b, NoFile) :
             o \in Origins, b \in {EmptyBody, ValidContactBody} }

\* process.env
Envs ==
    [EMAIL_USER : {Undef, "rsn@gmail.com"},
     HR_EMAIL : {Undef, "", "hr@rsn.example"},
     NODE_ENV : {Undef, "production", "development"}]

\* Messages of the errors transporter.sendMail may reject with.
SmtpErrors == {"Invalid login: 535-5.7.8 Username and Password not accepted"}

MulterFileTooLarge == "File too large"

----------------------------------------------------------------------------
VARIABLES
    env,        \* process.env, fixed at start
    verify,     \* outcome of transporter.verify: "pending", "ready", "error"
    pc,         \* per request slot: "idle", "sending" (awaiting sendMail), "done"
    request,    \* the request a slot is handling
    route,      \* which middleware or handler took the request
    sent,       \* the mailOptions passed to transporter.sendMail for the request
    outcome,    \* how the request's sendMail call ended: "none", "ok", or the error
    response,   \* the response written for the request
    verifySeen  \* value of verify when the request's handler ran

vars == <<env, verify, pc, request, route, sent, outcome, response, verifySeen>>

Reqs == 1 .. NumReqs

NoRequest == Req(Undef, Undef, Undef, EmptyBody, NoFile)

NoResponse == [status |-> 0, success |-> Undef, message |-> Undef, error |-> Undef]

Json(status, success, message, error) ==
    [status |-> status, success |-> success, message |-> message, error |-> error]

Init ==
    /\ env \in Envs
    /\ verify = "pending"
    /\ pc = [r \in Reqs |-> "idle"]
    /\ request = [r \in Reqs |-> NoRequest]
    /\ route = [r \in Reqs |-> "none"]
    /\ sent = [r \in Reqs |-> <<>>]
    /\ outcome = [r \in Reqs |-> "none"]
    /\ response = [r \in Reqs |-> NoResponse]
    /\ verifySeen = [r \in Reqs |-> "none"]

----------------------------------------------------------------------------
(* Responses and mail construction.                                           *)

\* Mutant of DevError: the error text is sent in every environment.
DevErrorAlways(msg) == msg

\* process.env.NODE_ENV === 'development' ? err.message : undefined
DevError(msg) == IF env.NODE_ENV = "development" THEN msg ELSE Undef

\* server.js:235-242.  err is [message, status]; status 0 stands for an error
\* object without a status property (err.status || 500).
ErrorMiddleware(err) ==
    Json(IF err.status = 0 THEN 500 ELSE err.status, "false",
         "Internal server error", DevError(err.message))

\* server.js:164-171
CareerCatch(msg) == Json(500, "false", "Failed to process application", DevError(msg))

\* server.js:223-229
ContactCatch(msg) == Json(500, "false", "Failed to send message", Undef)

\* server.js:102, 113: the two validation tests of the career handler.
CareerFileMissing(q) == ~q.file.present

\* Mutant of CareerFieldsMissing: the phone test is left out.
CareerFieldsMissingNoPhone(body) ==
    Falsy(body.name) \/ Falsy(body.email) \/ Falsy(body.position)

CareerFieldsMissing(body) ==
    Falsy(body.name) \/ Falsy(body.email) \/ Falsy(body.phone) \/ Falsy(body.position)

\* Mutant of ContactFieldsMissing: the message test is left out.
ContactFieldsMissingNoMessage(body) == Falsy(body.name) \/ Falsy(body.email)

\* server.js:183
ContactFieldsMissing(body) ==
    Falsy(body.name) \/ Falsy(body.email) \/ Falsy(body.message)

\* Mutant of MailTo: no fallback to the SMTP account address.
MailToNoFallback == env.HR_EMAIL

\* server.js:125, 192: process.env.HR_EMAIL || process.env.EMAIL_USER
MailTo == Or(env.HR_EMAIL, env.EMAIL_USER)

\* server.js:123-153
CareerMailOptions(q) ==
    LET body == q.body
        formattedPosition == formatPosition(body.position)
    IN  [from    |-> <<"\"RSN Career Portal\" <", ToStr(env.EMAIL_USER), ">">>,
         to      |-> MailTo,
         subject |-> <<"Job Application: ", ToStr(body.name), " - ",
                       ToStr(formattedPosition)>>,
         html    |-> [heading  |-> <<"New Job Application - ", ToStr(formattedPosition)>>,
                      name     |-> ToStr(body.name),
                      email    |-> ToStr(body.email),
                      phone    |-> ToStr(body.phone),
                      position |-> ToStr(formattedPosition),
                      message  |-> ToStr(Or(body.message, "No message provided"))],
         attachments |-> << [filename |-> Or(q.file.originalname, "resume.pdf"),
                             content  |-> q.file.buffer] >>]

\* server.js:190-213
ContactMailOptions(q) ==
    LET body == q.body
    IN  [from    |-> <<"\"RSN Website Contact\" <", ToStr(env.EMAIL_USER), ">">>,
         to      |-> MailTo,
         replyTo |-> body.email,
         subject |-> <<"Contact Form: ", ToStr(Or(body.subject, "New Inquiry"))>>,
         html    |-> [name     |-> ToStr(body.name),
                      email    |-> ToStr(body.email),
                      phone    |-> ToStr(Or(body.phone, "Not provided")),
                      subject  |-> ToStr(Or(body.subject, "General Inquiry")),
                      preferredContact |-> ToStr(Or(body.preferredContact, "Email")),
                      message  |-> ToStr(body.message)]]

----------------------------------------------------------------------------
(* Steps.  A request is taken from In by a free slot and runs, in one step,   *)
(* through the middleware chain and its handler up to the response or to the  *)
(* await of transporter.sendMail.                                             *)

\* res.status(..).json(..): the request is answered by rt.
Respond(r, q, rt, resp) ==
    /\ pc' = [pc EXCEPT ![r] = "done"]
    /\ request' = [request EXCEPT ![r] = q]
    /\ route' = [route EXCEPT ![r] = rt]
    /\ response' = [response EXCEPT ![r] = resp]
    /\ verifySeen' = [verifySeen EXCEPT ![r] = verify]
    /\ UNCHANGED <<env, verify, sent, outcome>>

\* Mutant of AwaitSendMail: the handler refuses to send until the startup
\* verification has succeeded.
AwaitSendMailIfVerified(r, q, rt, mailOptions) ==
    IF verify = "ready"
    THEN /\ pc' = [pc EXCEPT ![r] = "sending"]
         /\ request' = [request EXCEPT ![r] = q]
         /\ route' = [route EXCEPT ![r] = rt]
         /\ sent' = [sent EXCEPT ![r] = Append(@, mailOptions)]
         /\ verifySeen' = [verifySeen EXCEPT ![r] = verify]
         /\ UNCHANGED <<env, verify, outcome, response>>
    ELSE Respond(r, q, rt, Json(503, "false", "Mail service unavailable", Undef))

\* Mutant of AwaitSendMail: mailOptions is one object shared by the handlers,
\* so a request that arrives while another is being sent sends that one's mail.
AwaitSendMailShared(r, q, rt, mailOptions) ==
    /\ pc' = [pc EXCEPT ![r] = "sending"]
    /\ request' = [request EXCEPT ![r] = q]
    /\ route' = [route EXCEPT ![r] = rt]
    /\ sent' = [sent EXCEPT ![r] =
          IF \E o \in Reqs : pc[o] = "sending"
          THEN Append(@, sent[CHOOSE o \in Reqs : pc[o] = "sending"][1])
          ELSE Append(@, mailOptions)]
    /\ verifySeen' = [verifySeen EXCEPT ![r] = verify]
    /\ UNCHANGED <<env, verify, outcome, response>>

\* await transporter.sendMail(mailOptions): the call is made on the shared
\* transport and the handler suspends with no response written.
AwaitSendMail(r, q, rt, mailOptions) ==
    /\ pc' = [pc EXCEPT ![r] = "sending"]
    /\ request' = [request EXCEPT ![r] = q]
    /\ route' = [route EXCEPT ![r] = rt]
    /\ sent' = [sent EXCEPT ![r] = Append(@, mailOptions)]
    /\ verifySeen' = [verifySeen EXCEPT ![r] = verify]
    /\ UNCHANGED <<env, verify, outcome, response>>

\* server.js:23-36 with 235-242: the origin callback reports an error, cors
\* passes it to next(err), and the error-handling middleware answers.
CorsBlocked(r, In) ==
    /\ pc[r] = "idle"
    /\ \E q \in In :
        /\ ~OriginAllowed(q.origin)
        /\ Respond(r, q, "corsError",
                   ErrorMiddleware([message |-> CorsMessage, status |-> 0]))

\* server.js:23-36: cors answers an OPTIONS request itself (preflightContinue
\* is not set) with 204 and does not call next().
Preflight(r, In) ==
    /\ pc[r] = "idle"
    /\ \E q \in In :
        /\ OriginAllowed(q.origin)
        /\ q.method = "OPTIONS"
        /\ Respond(r, q, "preflight", Json(204, Undef, Undef, Undef))

\* server.js:76-82 (the timestamp field is left out)
Health(r, In) ==
    /\ pc[r] = "idle"
    /\ \E q \in In :
        /\ OriginAllowed(q.origin)
        /\ q.method = "GET" /\ q.path = "/api/health"
        /\ Respond(r, q, "health", Json(200, "true", "Backend is running", Undef))

\* server.js:84-93
Root(r, In) ==
    /\ pc[r] = "idle"
    /\ \E q \in In :
        /\ OriginAllowed(q.origin)
        /\ q.method = "GET" /\ q.path = "/"
        /\ Respond(r, q, "root", Json(200, Undef, "RSN Backend API", Undef))

\* server.js:68-71, 98: upload.single('resume') finds the file larger than
\* limits.fileSize and calls next(err); the handler does not run.
UploadRejected(r, In) ==
    /\ pc[r] = "idle"
    /\ \E q \in In :
        /\ OriginAllowed(q.origin)
        /\ q.method = "POST" /\ q.path = "/api/careers/apply"
        /\ q.file.present /\ q.file.size > FileSizeLimit
        /\ Respond(r, q, "uploadError",
                   ErrorMiddleware([message |-> MulterFileTooLarge, status |-> 0]))

\* server.js:98-162, up to the await
CareersApply(r, In) ==
    /\ pc[r] = "idle"
    /\ \E q \in In :
        /\ OriginAllowed(q.origin)
        /\ q.method = "POST" /\ q.path = "/api/careers/apply"
        /\ ~(q.file.present /\ q.file.size > FileSizeLimit)
        /\ IF CareerFileMissing(q)
           THEN Respond(r, q, "careers", Json(400, "false", "Resume file is required", Undef))
           ELSE IF CareerFieldsMissing(q.body)
           THEN Respond(r, q, "careers", Json(400, "false", "Missing required fields", Undef))
           ELSE AwaitSendMail(r, q, "careers", CareerMailOptions(q))

\* server.js:177-215, up to the await
Contact(r, In) ==
    /\ pc[r] = "idle"
    /\ \E q \in In :
        /\ OriginAllowed(q.origin)
        /\ q.method = "POST" /\ q.path = "/api/contact"
        /\ IF ContactFieldsMissing(q.body)
           THEN Respond(r, q, "contact",
                        Json(400, "false", "Name, email, and message are required", Undef))
           ELSE AwaitSendMail(r, q, "contact", ContactMailOptions(q))

\* server.js:245-250
NotFound(r, In) ==
    /\ pc[r] = "idle"
    /\ \E q \in In :
        /\ OriginAllowed(q.origin)
        /\ q.method # "OPTIONS"
        /\ ~(q.method = "GET" /\ q.path \in {"/", "/api/health"})
        /\ ~(q.method = "POST" /\ q.path \in {"/api/careers/apply", "/api/contact"})
        /\ Respond(r, q, "notFound", Json(404, "false", "Endpoint not found", Undef))

\* server.js:156-162, 215-221: the awaited sendMail resolves.
SendMailResolves(r) ==
    /\ pc[r] = "sending"
    /\ pc' = [pc EXCEPT ![r] = "done"]
    /\ outcome' = [outcome EXCEPT ![r] = "ok"]
    /\ response' = [response EXCEPT ![r] =
          IF route[r] = "careers"
          THEN Json(200, "true", "Application submitted successfully", Undef)
          ELSE Json(200, "true", "Message sent successfully", Undef)]
    /\ UNCHANGED <<env, verify, request, route, sent, verifySeen>>

\* Mutant of SendMailRejects: the catch sends the mail again instead of
\* answering.
SendMailRejectsRetry(r) ==
    /\ pc[r] = "sending"
    /\ Len(sent[r]) < 2
    /\ sent' = [sent EXCEPT ![r] = Append(@, @[1])]
    /\ UNCHANGED <<env, verify, pc, request, route, outcome, response, verifySeen>>

\* server.js:164-171, 223-229: the awaited sendMail rejects and the catch runs.
SendMailRejects(r) ==
    \E msg \in SmtpErrors :
        /\ pc[r] = "sending"
        /\ pc' = [pc EXCEPT ![r] = "done"]
        /\ outcome' = [outcome EXCEPT ![r] = msg]
        /\ response' = [response EXCEPT ![r] =
              IF route[r] = "careers" THEN CareerCatch(msg) ELSE ContactCatch(msg)]
        /\ UNCHANGED <<env, verify, request, route, sent, verifySeen>>

\* The response has gone out; nothing of the request is kept.
Close(r) ==
    /\ pc[r] = "done"
    /\ pc' = [pc EXCEPT ![r] = "idle"]
    /\ request' = [request EXCEPT ![r] = NoRequest]
    /\ route' = [route EXCEPT ![r] = "none"]
    /\ sent' = [sent EXCEPT ![r] = <<>>]
    /\ outcome' = [outcome EXCEPT ![r] = "none"]
    /\ response' = [response EXCEPT ![r] = NoResponse]
    /\ verifySeen' = [verifySeen EXCEPT ![r] = "none"]
    /\ UNCHANGED <<env, verify>>

\* server.js:55-61: the verify callback runs once, logging either way.
VerifyReady ==
    /\ verify = "pending"
    /\ verify' = "ready"
    /\ UNCHANGED <<env, pc, request, route, sent, outcome, response, verifySeen>>

VerifyError ==
    /\ verify = "pending"
    /\ verify' = "error"
    /\ UNCHANGED <<env, pc, request, route, sent, outcome, response, verifySeen>>

\* Requests chosen to overlap: valid applications and contact messages with
\* different payloads, an invalid one of each, and one from a blocked origin.
ConcRequests ==
    { Req("POST", "/api/careers/apply", Undef, b, f) :
        b \in { ValidCareerBody,
                [ValidCareerBody EXCEPT !.name = "Ravi", !.position = "articleship"],
                [ValidCareerBody EXCEPT !.phone = Undef] },
        f \in {f \in Files : f.present /\ f.size <= 1024} }
    \cup { Req("POST", "/api/careers/apply", Undef, ValidCareerBody, f) :
        f \in {f \in Files : f.present /\ f.size < FileSizeLimit} }
    \cup { Req("POST", "/api/contact", Undef, b, NoFile) :
        b \in { ValidContactBody,
                [ValidContactBody EXCEPT !.email = "b@y.org", !.subject = "Audit"],
                [ValidContactBody EXCEPT !.message = ""] } }
    \cup { Req("POST", "/api/contact", EvilOrigin, ValidContactBody, NoFile) }

Next ==
    \/ \E r \in {1} :
        \/ CorsBlocked(r, AllRequests)
        \/ Preflight(r, AllRequests)
        \/ Health(r, AllRequests)
        \/ Root(r, AllRequests)
        \/ UploadRejected(r, AllRequests)
        \/ CareersApply(r, AllRequests)
        \/ Contact(r, AllRequests)
        \/ NotFound(r, AllRequests)
        \/ SendMailResolves(r)
        \/ SendMailRejects(r)
        \/ Close(r)
    \/ VerifyReady
    \/ VerifyError

\* One request at a time, over every input.
Spec == Init /\ [][Next]_vars

NextConc ==
    \/ \E r \in Reqs :
        \/ CorsBlocked(r, ConcRequests)
        \/ CareersApply(r, ConcRequests)
        \/ Contact(r, ConcRequests)
        \/ SendMailResolves(r)
        \/ SendMailRejects(r)
        \/ Close(r)
    \/ VerifyReady
    \/ VerifyError

\* The configurations the overlapping runs start from: the SMTP account is
\* set, the destination mailbox is set or not.
InitConc ==
    /\ Init
    /\ env.EMAIL_USER # Undef
    /\ env.HR_EMAIL # ""

\* NumReqs requests in flight at once, over ConcRequests.
SpecConc == InitConc /\ [][NextConc]_vars

----------------------------------------------------------------------------
(* Properties.                                                                *)

\* A form field that is absent or empty.
Absent(v) == v \in {Undef, ""}

CareerRequiredFields == {"name", "email", "phone", "position"}

ContactRequiredFields == {"name", "email", "message"}

MissingAny(body, fields) == \E f \in fields : Absent(body[f])

\* The request was taken by the career (contact) handler and passed its
\* validation.
ValidCareer(r) ==
    /\ route[r] = "careers"
    /\ request[r].file.present
    /\ ~MissingAny(request[r].body, CareerRequiredFields)

ValidContact(r) ==
    /\ route[r] = "contact"
    /\ ~MissingAny(request[r].body, ContactRequiredFields)

\* C1: a career application that reaches the handler without a resume or with
\* one of name, email, phone, position absent or empty is answered 400 and
\* sendMail is never called for it.
C1_CareerMissingIs400 ==
    \A r \in Reqs :
        ( /\ route[r] = "careers"
          /\ \/ ~request[r].file.present
             \/ MissingAny(request[r].body, CareerRequiredFields) )
        => /\ pc[r] = "done"
           /\ response[r].status = 400
           /\ sent[r] = <<>>
           /\ outcome[r] = "none"

C1_Witness ==
    \E r \in Reqs :
        /\ route[r] = "careers"
        /\ request[r].file.present
        /\ Absent(request[r].body.phone)
        /\ ~MissingAny(request[r].body, CareerRequiredFields \ {"phone"})
        /\ response[r].status = 400

\* C2: a contact message that reaches the handler with one of name, email,
\* message absent or empty is answered 400 and sendMail is never called for it;
\* with the three present it is never answered 400, whatever phone, subject and
\* preferredContact are.
C2_ContactMissingIs400 ==
    \A r \in Reqs :
        /\ ( route[r] = "contact" /\ MissingAny(request[r].body, ContactRequiredFields) )
           => /\ pc[r] = "done"
              /\ response[r].status = 400
              /\ sent[r] = <<>>
              /\ outcome[r] = "none"
        /\ ValidContact(r) => response[r].status # 400

C2_Witness ==
    \E r \in Reqs :
        /\ route[r] = "contact"
        /\ Absent(request[r].body.message)
        /\ ~MissingAny(request[r].body, ContactRequiredFields \ {"message"})
        /\ response[r].status = 400

\* C3: a career application with name, email, phone, position present and a
\* resume within the cap, whose sendMail call succeeded, is answered 200, and
\* sendMail was called exactly once for it, with exactly one attachment holding
\* the uploaded bytes, addressed to HR_EMAIL when that is configured and to
\* EMAIL_USER otherwise.
C3_CareerSuccess ==
    \A r \in Reqs :
        ( ValidCareer(r) /\ request[r].file.size <= FileSizeLimit /\ outcome[r] = "ok" )
        => /\ response[r].status = 200
           /\ Len(sent[r]) = 1
           /\ Len(sent[r][1].attachments) = 1
           /\ sent[r][1].attachments[1].content = request[r].file.buffer
           /\ sent[r][1].to = IF Absent(env.HR_EMAIL) THEN env.EMAIL_USER
                              ELSE env.HR_EMAIL

C3_Witness ==
    \E r \in Reqs :
        /\ ValidCareer(r) /\ outcome[r] = "ok"
        /\ response[r].status = 200
        /\ Absent(env.HR_EMAIL) /\ env.EMAIL_USER # Undef
        /\ sent[r][1].to = env.EMAIL_USER
        /\ sent[r][1].attachments[1].content = "PK-B"

\* C4: in both handlers a validated request has no response while its sendMail
\* call is pending; sendMail is called once and never again; a failed call ends
\* the request with 500 and success false, a successful one with 200.
C4_SendThenRespond ==
    \A r \in Reqs :
        ( ValidCareer(r) \/ ValidContact(r) )
        => /\ Len(sent[r]) = 1
           /\ pc[r] \in {"sending", "done"}
           /\ pc[r] = "sending" => response[r] = NoResponse /\ outcome[r] = "none"
           /\ response[r] # NoResponse => pc[r] = "done" /\ outcome[r] # "none"
           /\ pc[r] = "done" =>
                \/ outcome[r] = "ok" /\ response[r].status = 200
                   /\ response[r].success = "true"
                \/ outcome[r] \in SmtpErrors /\ response[r].status = 500
                   /\ response[r].success = "false"

C4_Witness ==
    \E r \in Reqs :
        /\ ValidContact(r)
        /\ pc[r] = "done"
        /\ outcome[r] \in SmtpErrors
        /\ response[r].status = 500
        /\ Len(sent[r]) = 1

\* C5: a request with an Origin header whose value is not in the allow-list is
\* rejected before any route handler runs and sends no mail; a request with no
\* Origin header is never rejected by the origin policy, whatever its path and
\* method: it goes on to routing (an OPTIONS request to the preflight answer).
C5_OriginPolicy ==
    \A r \in Reqs :
        pc[r] # "idle" =>
            /\ ( request[r].origin # Undef /\ request[r].origin \notin allowedOrigins )
               => route[r] = "corsError" /\ sent[r] = <<>>
            /\ request[r].origin = Undef
               => route[r] \in {"preflight", "health", "root", "careers", "contact",
                                "notFound", "uploadError"}

\* The label of a position code as section 4.5 of the specification gives it.
PositionLabel(code) ==
    CASE code = "chartered_accountant" -> "Chartered Accountant"
      [] code = "articleship"          -> "Articleship"
      [] code = "others"               -> "Others"
      [] OTHER                         -> code

\* C6: the position shown in the career email's subject and body is the label
\* of the submitted code for the three known codes and the submitted string
\* itself for any other.
C6_FormatPosition ==
    \A r \in Reqs :
        ( route[r] = "careers" /\ Len(sent[r]) = 1 )
        => LET label == PositionLabel(request[r].body.position)
               mail  == sent[r][1]
           IN  /\ mail.subject[4] = label
               /\ mail.html.heading[2] = label
               /\ mail.html.position = label

\* C7: the contact email's reply-to is the submitted address; without a subject
\* the email shows one default subject in its subject line and in its body, with
\* one it shows that subject; without preferredContact it shows "Email", with
\* one it shows that value.
C7_ContactDefaults ==
    \A r \in Reqs :
        ( route[r] = "contact" /\ Len(sent[r]) = 1 )
        => LET body == request[r].body
               mail == sent[r][1]
           IN  /\ mail.replyTo = body.email
               /\ mail.subject[2] = mail.html.subject
               /\ ~Absent(body.subject) => mail.subject[2] = body.subject
               /\ mail.html.preferredContact =
                     IF Absent(body.preferredContact) THEN "Email"
                     ELSE body.preferredContact

\* The request ended in an error other than a validation failure: the origin
\* was refused, the upload was refused, or sendMail failed.
EndedInError(r) ==
    /\ pc[r] = "done"
    /\ route[r] \in {"corsError", "uploadError"} \/ outcome[r] \in SmtpErrors

\* The message of the error the request ended in.
UnderlyingError(r) ==
    CASE route[r] = "corsError"   -> CorsMessage
      [] route[r] = "uploadError" -> MulterFileTooLarge
      [] OTHER                    -> outcome[r]

GenericMessages ==
    {"Internal server error", "Failed to process application", "Failed to send message"}

\* C8 as stated: a request that ends in an origin rejection, a refused upload
\* or a sendMail failure gets a generic message and no text of the error, in
\* every environment.
C8_NoErrorText ==
    \A r \in Reqs :
        EndedInError(r)
        => /\ response[r].message \in GenericMessages
           /\ response[r].error = Undef

\* C8 amended: such a request gets status 500 and a generic message; the body
\* holds no text of the error unless NODE_ENV is "development", where the
\* career handler and the error middleware add the error's message; the
\* contact handler never adds it.
C8_NoErrorTextOutsideDevelopment ==
    \A r \in Reqs :
        EndedInError(r)
        => /\ response[r].status = 500
           /\ response[r].message \in GenericMessages
           /\ response[r].error =
                IF env.NODE_ENV = "development" /\ route[r] # "contact"
                THEN UnderlyingError(r) ELSE Undef

C8_Witness ==
    \E r \in Reqs :
        /\ EndedInError(r)
        /\ route[r] = "careers"
        /\ env.NODE_ENV = "production"
        /\ response[r].status = 500
        /\ response[r].error = Undef

\* C9: whatever the state of the startup verification, a free slot can take a
\* career or a contact request, and a validated career or contact request has
\* sendMail called for it, its response being 200 when that call succeeds and
\* 500 when it fails.
C9_VerifyNeverGates ==
    \A r \in Reqs :
        /\ pc[r] = "idle" =>
             ENABLED CareersApply(r, ConcRequests) /\ ENABLED Contact(r, ConcRequests)
        /\ ( ValidCareer(r) \/ ValidContact(r) )
           => /\ verifySeen[r] \in {"pending", "ready", "error"}
              /\ Len(sent[r]) = 1
              /\ pc[r] = "done" =>
                   response[r].status = IF outcome[r] = "ok" THEN 200 ELSE 500

C9_Witness ==
    \E r \in Reqs :
        /\ ValidCareer(r)
        /\ verifySeen[r] = "error"
        /\ pc[r] = "done"
        /\ outcome[r] = "ok"
        /\ response[r].status = 200

\* The status a request's own payload and its own sendMail outcome call for.
OwnStatus(q, out) ==
    IF q.origin # Undef /\ q.origin \notin allowedOrigins THEN 500
    ELSE IF q.path = "/api/careers/apply"
              /\ (~q.file.present \/ MissingAny(q.body, CareerRequiredFields)) THEN 400
    ELSE IF q.path = "/api/contact" /\ MissingAny(q.body, ContactRequiredFields) THEN 400
    ELSE IF out = "ok" THEN 200
    ELSE 500

\* C10: with requests overlapping in any order, some of them suspended in
\* sendMail, each request's status follows from its own payload and its own
\* sendMail outcome, the email sent for it carries its own fields and its own
\* attachment, and a request waiting for sendMail can always complete and a
\* free slot can always take a request, whatever the other requests are doing.
C10_Isolation ==
    \A r \in Reqs :
        /\ pc[r] = "done" => response[r].status = OwnStatus(request[r], outcome[r])
        /\ Len(sent[r]) <= 1
        /\ Len(sent[r]) = 1 =>
             LET body == request[r].body
                 mail == sent[r][1]
             IN  /\ mail.html.name = body.name
                 /\ mail.html.email = body.email
                 /\ mail.html.message = body.message
                 /\ route[r] = "careers" =>
                      /\ mail.subject[2] = body.name
                      /\ mail.html.phone = body.phone
                      /\ mail.attachments =
                           << [filename |-> request[r].file.originalname,
                               content  |-> request[r].file.buffer] >>
                 /\ route[r] = "contact" => mail.replyTo = body.email
        /\ pc[r] = "sending" => ENABLED SendMailResolves(r) /\ ENABLED SendMailRejects(r)
        /\ pc[r] = "idle" =>
             ENABLED CareersApply(r, ConcRequests) /\ ENABLED Contact(r, ConcRequests)

C10_Witness ==
    \E r1, r2 \in Reqs :
        /\ r1 # r2
        /\ pc[r1] = "sending" /\ route[r1] = "careers"
        /\ pc[r2] = "done" /\ route[r2] = "careers" /\ outcome[r2] = "ok"
        /\ request[r1] # request[r2]
        /\ response[r2].status = 200
        /\ sent[r2][1].attachments[1].content # sent[r1][1].attachments[1].content

====
